---- MODULE Spec2Model ----
(***************************************************************************)
(* Options ETL: the per-contract metric functions (transform/metrics.py),  *)
(* the quality checks (quality/checks.py) and the orchestration in         *)
(* main.py.                                                                *)
(*                                                                         *)
(* Numbers.  Python floats are modelled in fixed point:                    *)
(*   - strike, spot, bid, ask, volume, open_interest: integers in an       *)
(*     exactly representable unit (only their ratios and order matter);    *)
(*   - a value rounded with round(x, 6) is an integer count of 1e-6;       *)
(*   - a volatility as the solver returns it is an integer count of 1e-7,  *)
(*     one digit finer than the final rounding;                            *)
(*   - mid prices are counted in half units, (bid + ask) / 2.0 = bid+ask   *)
(*     halves.                                                             *)
(* An Optional value is None (the empty tuple) or Some(v) (a 1-tuple).     *)
(***************************************************************************)
EXTENDS Integers, Sequences, FiniteSets, TLC

VARIABLES
    pc,          \* position of main(): "idle" when only the metric functions are called
    today,       \* date.today(), a calendar date [y, m, d]
    raw,         \* rows of the raw CSV files read by run_transform
    df,          \* the transformed dataset the quality checks read
    results,     \* the list run_all_checks returns
    status,      \* STATUS line printed by main
    exitCode,    \* process exit status
    call,        \* the metric function last called, with its arguments
    ret,         \* what that call returned
    solverCall,  \* None, or Some(arguments and outcome of the py_vollib call made)
    solverLog,   \* per row of the last transform: solverCall of that row's iv_udf
    passes,      \* the transform passes made so far: [today, raw, df] of each
    solverGraph, \* the solver calls of those passes: a set of [args, out]
    config       \* the values of config.py the modules import

vars == <<pc, today, raw, df, results, status, exitCode, call, ret, solverCall,
          solverLog, passes, solverGraph, config>>

None == <<>>
Some(v) == <<v>>
Val(x) == x[1]

----------------------------------------------------------------------------
(* Bounds of the model *)

MaxPrice == 4        \* strike, spot, bid, ask range over -1..MaxPrice
MaxDte == 2          \* dte argument of compute_implied_volatility: -1..MaxDte
SolverTol == 1       \* error of a converged solve, in 1e-7
MaxRows == 5         \* rows in a dataset handed to the quality checks
MaxRawRows == 2      \* rows in the landing zone of a whole run

----------------------------------------------------------------------------
(* Python numerics *)

\* round half to even of the rational n / d, d > 0 (Python's round on a float)
RoundHalfEven(n, d) ==
    LET q == n \div d
        r == n % d
    IN  IF 2 * r < d THEN q
        ELSE IF 2 * r > d THEN q + 1
        ELSE IF q % 2 = 0 THEN q ELSE q + 1

Micro == 1000000

\* round(num / den, 6), as a count of 1e-6
round6(num, den) == RoundHalfEven(num * Micro, den)

----------------------------------------------------------------------------
(* datetime: strptime(s, "%Y-%m-%d").date() and date subtraction *)

IsLeap(y) == y % 4 = 0 /\ (y % 100 # 0 \/ y % 400 = 0)

DaysInMonth(y, m) ==
    IF m = 2 THEN (IF IsLeap(y) THEN 29 ELSE 28)
    ELSE IF m \in {4, 6, 9, 11} THEN 30 ELSE 31

DaysBeforeYear(y) ==
    LET p == y - 1 IN p * 365 + (p \div 4) - (p \div 100) + (p \div 400)

RECURSIVE DaysBeforeMonth(_, _)
DaysBeforeMonth(y, m) ==
    IF m <= 1 THEN 0 ELSE DaysBeforeMonth(y, m - 1) + DaysInMonth(y, m - 1)

toordinal(dt) == DaysBeforeYear(dt.y) + DaysBeforeMonth(dt.y, dt.m) + dt.d

\* A text is [kind |-> "empty"] for "", [kind |-> "junk"] for text that is not
\* of the shape digits-digits-digits, [kind |-> "ymd", y, m, d] for the text
\* "y-m-d" with those numbers, [kind |-> "date", ...] for a value that is not a
\* string at all (a datetime.date object).
\* strptime: the format's pattern takes a month 1..12 and a day 1..31; the
\* date constructor then refuses a day the month does not have.  Anything
\* else raises, which is returned here as None.
strptime(s) ==
    IF s.kind # "ymd" THEN None
    ELSE IF s.m \notin 1..12 \/ s.d \notin 1..31 \/ s.y \notin 1..9999 THEN None
    ELSE IF s.d > DaysInMonth(s.y, s.m) THEN None
    ELSE Some([y |-> s.y, m |-> s.m, d |-> s.d])

max(a, b) == IF a >= b THEN a ELSE b

----------------------------------------------------------------------------
(* transform/metrics.py *)

compute_dte_unclamped(expiration_str, today_) ==
    IF expiration_str = None \/ Val(expiration_str).kind = "empty" THEN None
    ELSE LET exp_date == strptime(Val(expiration_str))
         IN  IF exp_date = None THEN None
             ELSE Some(toordinal(Val(exp_date)) - toordinal(today_))

compute_dte(expiration_str, today_) ==
    IF expiration_str = None \/ Val(expiration_str).kind = "empty" THEN None
    ELSE LET exp_date == strptime(Val(expiration_str))
         IN  IF exp_date = None THEN None
             ELSE Some(max(toordinal(Val(exp_date)) - toordinal(today_), 0))

compute_moneyness_floor(strike, spot) ==
    IF strike = None \/ spot = None THEN None
    ELSE IF Val(spot) <= 0 THEN None
    ELSE Some((Val(strike) * Micro) \div Val(spot))

compute_moneyness(strike, spot) ==
    IF strike = None \/ spot = None THEN None
    ELSE IF Val(spot) <= 0 THEN None
    ELSE Some(round6(Val(strike), Val(spot)))

compute_bid_ask_spread_pct_of_bid(bid, ask) ==
    IF bid = None \/ ask = None THEN None
    ELSE IF Val(bid) + Val(ask) <= 0 THEN None
    ELSE IF Val(bid) <= 0 THEN None
    ELSE Some(round6(Val(ask) - Val(bid), Val(bid)))

\* mid = (bid + ask) / 2.0 is mid2 halves; (ask - bid) / mid = 2 (ask - bid) / mid2
compute_bid_ask_spread_pct(bid, ask) ==
    IF bid = None \/ ask = None THEN None
    ELSE LET mid2 == Val(bid) + Val(ask)
         IN  IF mid2 <= 0 THEN None
             ELSE Some(round6(2 * (Val(ask) - Val(bid)), mid2))

\* str(option_type).lower().startswith("c"), on the option_type texts of the model
OptionTypeTexts == {"call", "put", "CALL", "x"}
startswith_c(option_type) == option_type \in {"call", "CALL"}

\* the literal 5.0 of the rejection test, in 1e-7
IvCap == 5 * 10000000

iv_returns_early_no_dte(option_type, spot, strike, dte, market_price) ==
    \/ option_type = None \/ spot = None \/ strike = None
    \/ dte = None \/ market_price = None
    \/ Val(market_price) <= 0 \/ Val(spot) <= 0 \/ Val(strike) <= 0

\* The preconditions of lines 106-109: TRUE when the function returns before
\* the try block.
iv_returns_early(option_type, spot, strike, dte, market_price) ==
    \/ option_type = None \/ spot = None \/ strike = None
    \/ dte = None \/ market_price = None
    \/ Val(dte) <= 0 \/ Val(market_price) <= 0 \/ Val(spot) <= 0 \/ Val(strike) <= 0

\* The arguments of implied_volatility(market_price, spot, strike, t, r, flag);
\* t = dte / 365.0 is kept as the number of days.
solver_args(option_type, spot, strike, dte, risk_free_rate, market_price) ==
    [price |-> Val(market_price), S |-> Val(spot), K |-> Val(strike),
     t_days |-> Val(dte), r |-> risk_free_rate,
     flag |-> IF startswith_c(Val(option_type)) THEN "c" ELSE "p"]

\* Lines 119-127 on the outcome `out` of the solver call: [kind |-> "raise"]
\* (any exception, the import failing included), [kind |-> "none"], or
\* [kind |-> "value", v |-> volatility in 1e-7].
iv_after_solver_clamped(out) ==
    IF out.kind # "value" THEN None
    ELSE IF out.v <= 0 THEN None
    ELSE IF out.v > IvCap THEN Some(RoundHalfEven(IvCap, 10))
    ELSE Some(RoundHalfEven(out.v, 10))

iv_after_solver(out) ==
    IF out.kind # "value" THEN None
    ELSE IF out.v <= 0 \/ out.v > IvCap THEN None
    ELSE Some(RoundHalfEven(out.v, 10))

compute_implied_volatility(option_type, spot, strike, dte, risk_free_rate, market_price, out) ==
    IF iv_returns_early(option_type, spot, strike, dte, market_price) THEN None
    ELSE iv_after_solver(out)

\* Some(the call made to the solver and its outcome), or None when the
\* function returned without reaching it.
solver_invocation(option_type, spot, strike, dte, risk_free_rate, market_price, out) ==
    IF iv_returns_early(option_type, spot, strike, dte, market_price) THEN None
    ELSE Some([args |-> solver_args(option_type, spot, strike, dte, risk_free_rate, market_price),
               out |-> out])

----------------------------------------------------------------------------
(* quality/checks.py *)

\* config.py as shipped
RISK_FREE_RATE == 53                \* 0.053, in 1e-3
IV_NULL_TOLERANCE == 20             \* 0.20, in percent
VOLUME_OI_OUTLIER_THRESHOLD == 10   \* 10.0
MAX_VALID_IV == 50000000            \* 5.0, in 1e-7

ShippedConfig ==
    [RISK_FREE_RATE |-> RISK_FREE_RATE, IV_NULL_TOLERANCE |-> IV_NULL_TOLERANCE,
     VOLUME_OI_OUTLIER_THRESHOLD |-> VOLUME_OI_OUTLIER_THRESHOLD,
     MAX_VALID_IV |-> MAX_VALID_IV]

\* config.py edited in one value: another rate, another tolerance, another
\* multiplier, a lower and a higher cap
Configurations ==
    {ShippedConfig,
     [ShippedConfig EXCEPT !.RISK_FREE_RATE = 10],
     [ShippedConfig EXCEPT !.IV_NULL_TOLERANCE = 50],
     [ShippedConfig EXCEPT !.VOLUME_OI_OUTLIER_THRESHOLD = 12],
     [ShippedConfig EXCEPT !.MAX_VALID_IV = 3 * 10000000],
     [ShippedConfig EXCEPT !.MAX_VALID_IV = 6 * 10000000]}

\* The positions of the rows of d, in stored order: the rows of
\* df.filter(cond) are kept as the positions that satisfy cond
positions(d) == [i \in 1..Len(d) |-> i]

\* df.limit(n) of a dataset without an ordering: its first n rows
limit(rows, n) == SubSeq(rows, 1, IF Len(rows) < n THEN Len(rows) ELSE n)

\* _sample_failures(df, n=3): [row.asDict() for row in df.limit(n).collect()],
\* on the positions of the rows
sample_failures_of(rows) == limit(rows, 3)

\* select("ticker", "expiration", "option_type", "strike", "bid", "ask")
select_quote(r) ==
    [ticker |-> r.ticker, expiration |-> r.expiration, option_type |-> r.option_type,
     strike |-> r.strike, bid |-> r.bid, ask |-> r.ask]

\* df.filter(cond).count(): a null operand makes the condition null and the
\* row is dropped, which the isNotNull conjuncts make explicit.
null_zero_bid_failed(r) == r.bid = None \/ Val(r.bid) <= 0

check_null_zero_bid(d) ==
    LET total == Len(d)
        failed_df == SelectSeq(d, null_zero_bid_failed)
        failed_count == Len(failed_df)
        sample == sample_failures_of(SelectSeq(positions(d), LAMBDA i : null_zero_bid_failed(d[i])))
    IN  [check_name |-> "null_zero_bid", failed_count |-> failed_count,
         total_count |-> total, passed |-> (failed_count = 0), severity |-> "WARN",
         sample_failures |-> [k \in 1..Len(sample) |-> select_quote(d[sample[k]])],
         sample_rows |-> sample]

bid_ask_inversion_failed_or_equal(r) ==
    r.bid # None /\ r.ask # None /\ Val(r.bid) >= Val(r.ask)

bid_ask_inversion_failed(r) ==
    r.bid # None /\ r.ask # None /\ Val(r.bid) > Val(r.ask)

check_bid_ask_inversion(d) ==
    LET total == Len(d)
        failed_df == SelectSeq(d, bid_ask_inversion_failed)
        failed_count == Len(failed_df)
        sample == sample_failures_of(SelectSeq(positions(d), LAMBDA i : bid_ask_inversion_failed(d[i])))
    IN  [check_name |-> "bid_ask_inversion", failed_count |-> failed_count,
         total_count |-> total, passed |-> (failed_count = 0), severity |-> "ERROR",
         sample_failures |-> [k \in 1..Len(sample) |-> select_quote(d[sample[k]])],
         sample_rows |-> sample]

iv_null_failed(r) == r.implied_volatility = None

\* failure_rate <= IV_NULL_TOLERANCE with failure_rate = failed_count / total
\* if total > 0 else 0.0
iv_null_rate_passed_strict(failed_count, total) ==
    IF total > 0 THEN failed_count * 100 < config.IV_NULL_TOLERANCE * total
    ELSE 0 < config.IV_NULL_TOLERANCE

iv_null_rate_passed(failed_count, total) ==
    IF total > 0 THEN failed_count * 100 <= config.IV_NULL_TOLERANCE * total
    ELSE 0 <= config.IV_NULL_TOLERANCE

\* select(..., "bid", "ask", "mid_price", "dte", "spot_price")
select_iv_inputs(r) ==
    [ticker |-> r.ticker, expiration |-> r.expiration, option_type |-> r.option_type,
     strike |-> r.strike, bid |-> r.bid, ask |-> r.ask, mid_price |-> r.mid_price,
     dte |-> r.dte, spot_price |-> r.spot_price]

check_iv_null_rate(d) ==
    LET total == Len(d)
        failed_df == SelectSeq(d, iv_null_failed)
        failed_count == Len(failed_df)
        sample == sample_failures_of(SelectSeq(positions(d), LAMBDA i : iv_null_failed(d[i])))
    IN  [check_name |-> "iv_null_rate", failed_count |-> failed_count,
         total_count |-> total, passed |-> iv_null_rate_passed(failed_count, total),
         severity |-> "ERROR",
         sample_failures |-> [k \in 1..Len(sample) |-> select_iv_inputs(d[sample[k]])],
         sample_rows |-> sample]

volume_oi_outlier_failed_inclusive(r) ==
    /\ r.open_interest # None /\ Val(r.open_interest) > 0
    /\ r.volume # None
    /\ Val(r.volume) >= config.VOLUME_OI_OUTLIER_THRESHOLD * Val(r.open_interest)

volume_oi_outlier_failed(r) ==
    /\ r.open_interest # None /\ Val(r.open_interest) > 0
    /\ r.volume # None
    /\ Val(r.volume) > config.VOLUME_OI_OUTLIER_THRESHOLD * Val(r.open_interest)

\* F.round(volume / open_interest, 1) of a flagged row (its ratio is above
\* 0), in tenths: Spark's round is half up
volume_oi_ratio_display(r) ==
    (20 * Val(r.volume) + Val(r.open_interest)) \div (2 * Val(r.open_interest))

\* select(..., "volume", "open_interest", "volume_oi_ratio_display")
select_volume_oi(r) ==
    [ticker |-> r.ticker, expiration |-> r.expiration, option_type |-> r.option_type,
     strike |-> r.strike, volume |-> r.volume, open_interest |-> r.open_interest,
     volume_oi_ratio_display |-> volume_oi_ratio_display(r)]

\* orderBy(F.desc("volume_oi_ratio_display")) followed by limit(3): the
\* first three of the flagged rows in an order of descending displayed
\* ratio.  Spark fixes no order among rows with equal sort keys, so every
\* such order is an outcome.
order_by_display_limit(d) ==
    LET failed == {i \in 1..Len(d) : volume_oi_outlier_failed(d[i])}
        n == IF Cardinality(failed) < 3 THEN Cardinality(failed) ELSE 3
        key(i) == volume_oi_ratio_display(d[i])
    IN  {s \in [1..n -> failed] :
            /\ \A k \in 1..n, l \in 1..n : k # l => s[k] # s[l]
            /\ \A k \in 1..n, l \in 1..n : k < l => key(s[k]) >= key(s[l])
            /\ \A i \in failed :
                  (\A k \in 1..n : s[k] # i) => \A k \in 1..n : key(s[k]) >= key(i)}

\* `sample` is the outcome of the ordered limit of the sample
check_volume_oi_outliers(d, sample) ==
    LET total == Len(d)
        failed_df == SelectSeq(d, volume_oi_outlier_failed)
        failed_count == Len(failed_df)
    IN  [check_name |-> "volume_oi_outlier", failed_count |-> failed_count,
         total_count |-> total, passed |-> TRUE, severity |-> "WARN",
         sample_failures |-> [k \in 1..Len(sample) |-> select_volume_oi(d[sample[k]])],
         sample_rows |-> sample]

negative_dte_failed(r) == r.dte # None /\ Val(r.dte) < 0

\* select("ticker", "expiration", "dte")
select_dte(r) == [ticker |-> r.ticker, expiration |-> r.expiration, dte |-> r.dte]

check_negative_dte_always_passed(d) ==
    LET total == Len(d)
        failed_df == SelectSeq(d, negative_dte_failed)
        failed_count == Len(failed_df)
        sample == sample_failures_of(SelectSeq(positions(d), LAMBDA i : negative_dte_failed(d[i])))
    IN  [check_name |-> "negative_dte", failed_count |-> failed_count,
         total_count |-> total, passed |-> TRUE, severity |-> "ERROR",
         sample_failures |-> [k \in 1..Len(sample) |-> select_dte(d[sample[k]])],
         sample_rows |-> sample]

check_negative_dte(d) ==
    LET total == Len(d)
        failed_df == SelectSeq(d, negative_dte_failed)
        failed_count == Len(failed_df)
        sample == sample_failures_of(SelectSeq(positions(d), LAMBDA i : negative_dte_failed(d[i])))
    IN  [check_name |-> "negative_dte", failed_count |-> failed_count,
         total_count |-> total, passed |-> (failed_count = 0), severity |-> "ERROR",
         sample_failures |-> [k \in 1..Len(sample) |-> select_dte(d[sample[k]])],
         sample_rows |-> sample]

run_all_checks(d, volume_oi_sample) ==
    <<check_null_zero_bid(d), check_bid_ask_inversion(d), check_iv_null_rate(d),
      check_volume_oi_outliers(d, volume_oi_sample), check_negative_dte(d)>>

----------------------------------------------------------------------------
(* transform/pipeline.py: the derived columns of one row *)

\* F.when(bid.isNotNull() & ask.isNotNull(), (bid + ask) / 2.0), in halves
mid_price(bid, ask) ==
    IF bid # None /\ ask # None THEN Some(Val(bid) + Val(ask)) ELSE None

\* F.when(open_interest.isNotNull() & (open_interest > 0), volume / open_interest):
\* the quotient, kept as the pair <<volume, open_interest>>, null with a null volume
volume_oi_ratio(volume, open_interest) ==
    IF open_interest # None /\ Val(open_interest) > 0 /\ volume # None
    THEN Some(<<Val(volume), Val(open_interest)>>)
    ELSE None

\* F.when(option_type == "put", 1).otherwise(0)
is_put(option_type) == IF option_type # None /\ Val(option_type) = "put" THEN 1 ELSE 0

iv_market_price_last_price_fallback(mid, last_price) ==
    IF mid = None /\ last_price # None THEN Some(2 * Val(last_price)) ELSE mid

\* The fifth argument of iv_udf: F.col("mid_price"), the column derived
\* before it in the chain.
iv_market_price(mid, last_price) == mid

\* The withColumn chain of run_transform on one row; `out` is the outcome of
\* the solver call of this row, if the row reaches the solver.
transform_row(r, today_, out) ==
    LET dte == compute_dte(r.expiration, today_)
        mid == mid_price(r.bid, r.ask)
    IN  [ticker |-> r.ticker, expiration |-> r.expiration,
         option_type |-> r.option_type, strike |-> r.strike,
         spot_price |-> r.spot_price, bid |-> r.bid, ask |-> r.ask,
         last_price |-> r.last_price, volume |-> r.volume,
         open_interest |-> r.open_interest,
         dte |-> dte,
         moneyness |-> compute_moneyness(r.strike, r.spot_price),
         mid_price |-> mid,
         bid_ask_spread_pct |-> compute_bid_ask_spread_pct(r.bid, r.ask),
         implied_volatility |->
             compute_implied_volatility(r.option_type, r.spot_price, r.strike, dte,
                                        config.RISK_FREE_RATE,
                                        iv_market_price(mid, r.last_price), out),
         volume_oi_ratio |-> volume_oi_ratio(r.volume, r.open_interest),
         is_put |-> is_put(r.option_type)]

\* A dataset whose every row takes the spot price of the first row.
run_transform_first_spot(raw_df, today_, outs) ==
    [i \in 1..Len(raw_df) |->
        transform_row([raw_df[i] EXCEPT !.spot_price = raw_df[1].spot_price],
                      today_, outs[i])]

\* run_transform: the chain applied to every row of the landing zone
run_transform(raw_df, today_, outs) ==
    [i \in 1..Len(raw_df) |-> transform_row(raw_df[i], today_, outs[i])]

\* The solver call that iv_udf makes for the row, None when it makes none.
iv_udf_solver_call(r, today_, out) ==
    solver_invocation(r.option_type, r.spot_price, r.strike,
                      compute_dte(r.expiration, today_), config.RISK_FREE_RATE,
                      iv_market_price(mid_price(r.bid, r.ask), r.last_price), out)

----------------------------------------------------------------------------
(* main.py, step 3 and the summary *)

error_checks_any_failed(rs) == SelectSeq(rs, LAMBDA r : ~r.passed)

\* [r for r in results if not r.passed and r.severity == "ERROR"]
error_checks(rs) == SelectSeq(rs, LAMBDA r : ~r.passed /\ r.severity = "ERROR")

MetricsIdle == UNCHANGED <<call, ret, solverCall, passes, solverGraph, config>>

\* results = run_all_checks(output_df)
RunQualityChecks ==
    /\ pc = "checks"
    /\ \E volume_oi_sample \in order_by_display_limit(df) :
        results' = run_all_checks(df, volume_oi_sample)
    /\ pc' = "summary"
    /\ UNCHANGED <<today, raw, df, status, exitCode, solverLog>>
    /\ MetricsIdle

\* if error_checks: STATUS: DEGRADED, sys.exit(1); else STATUS: SUCCESS
Summary ==
    /\ pc = "summary"
    /\ IF error_checks(results) # <<>>
       THEN status' = "DEGRADED" /\ exitCode' = Some(1)
       ELSE status' = "SUCCESS" /\ exitCode' = Some(0)
    /\ pc' = "done"
    /\ UNCHANGED <<today, raw, df, results, solverLog>>
    /\ MetricsIdle

----------------------------------------------------------------------------
(* Inputs of the metric functions *)

OptPrices == {None} \cup {Some(n) : n \in -1..MaxPrice}

\* compute_implied_volatility reads only the sign of its numeric arguments
\* before it hands them to the solver
OptIvNums == {None} \cup {Some(n) : n \in -1..2}
OptDtes == {None} \cup {Some(n) : n \in -1..MaxDte}
OptOptionTypes == {None} \cup {Some(t) : t \in OptionTypeTexts}

Rates == {0, RISK_FREE_RATE}

Years == {2024, 2025}
ExpirationInputs ==
    {None, Some([kind |-> "empty"]), Some([kind |-> "junk"]),
     Some([kind |-> "date", y |-> 2024, m |-> 3, d |-> 1])}
    \cup {Some([kind |-> "ymd", y |-> y, m |-> m, d |-> d]) :
            y \in Years, m \in {0, 1, 2, 3, 12, 13}, d \in {0, 1, 28, 29, 30, 31, 32}}

Todays ==
    {[y |-> 2024, m |-> 2, d |-> 28], [y |-> 2024, m |-> 12, d |-> 31],
     [y |-> 2025, m |-> 3, d |-> 1]}

\* What the external solver can hand back: an exception, None, or a float.
SolvedValues ==
    {-1, 0, 1, 4, 5, 6, 14, 15, 16, 2000000,
     IvCap - 5, IvCap - 4, IvCap, IvCap + 1, 6 * 10000000}
SolverOutcomes ==
    {[kind |-> "raise"], [kind |-> "none"]}
    \cup {[kind |-> "value", v |-> v] : v \in SolvedValues}

\* Round trip: the pricer's value at a volatility, inverted by the solver.
\* price(kind, spot, strike, T, rate, volatility) is positive on valid inputs
\* and the solver converges to the volatility within its tolerance.
\* Volatilities of the round trip, 600% first: <<6.0, 5.0000002, 5.0000001,
\* 5.0, 4.9999996, 0.2, 6e-7, 5e-7, 4e-7>>
Volatilities ==
    <<6 * 10000000, IvCap + 2, IvCap + 1, IvCap, IvCap - 4, 2000000, 6, 5, 4>>
ModelPrices == 1..2
RoundTripOutcomes(volatility) ==
    {[kind |-> "value", v |-> volatility + e] : e \in (0 - SolverTol)..SolverTol}

----------------------------------------------------------------------------
(* Calls of the metric functions: one call per behaviour, the functions     *)
(* keep no state between calls.                                            *)

PipelineIdle ==
    UNCHANGED <<pc, today, raw, df, results, status, exitCode, solverLog, passes,
                solverGraph, config>>

CallComputeDte ==
    /\ pc = "idle" /\ call.fn = "none"
    /\ \E e \in ExpirationInputs :
        /\ call' = [fn |-> "compute_dte", expiration_str |-> e]
        /\ ret' = compute_dte(e, today)
        /\ solverCall' = None
        /\ PipelineIdle

CallComputeMoneyness ==
    /\ pc = "idle" /\ call.fn = "none"
    /\ \E strike \in OptPrices, spot \in OptPrices :
        /\ call' = [fn |-> "compute_moneyness", strike |-> strike, spot |-> spot]
        /\ ret' = compute_moneyness(strike, spot)
        /\ solverCall' = None
        /\ PipelineIdle

CallComputeBidAskSpreadPct ==
    /\ pc = "idle" /\ call.fn = "none"
    /\ \E bid \in OptPrices, ask \in OptPrices :
        /\ call' = [fn |-> "compute_bid_ask_spread_pct", bid |-> bid, ask |-> ask]
        /\ ret' = compute_bid_ask_spread_pct(bid, ask)
        /\ solverCall' = None
        /\ PipelineIdle

CallComputeImpliedVolatility ==
    /\ pc = "idle" /\ call.fn = "none"
    /\ \E option_type \in OptOptionTypes, spot \in OptIvNums, strike \in OptIvNums,
       dte \in OptDtes, r \in Rates, market_price \in OptIvNums,
       out \in SolverOutcomes :
        /\ call' = [fn |-> "compute_implied_volatility", option_type |-> option_type,
                    spot |-> spot, strike |-> strike, dte |-> dte,
                    risk_free_rate |-> r, market_price |-> market_price]
        /\ ret' = compute_implied_volatility(option_type, spot, strike, dte, r,
                                             market_price, out)
        /\ solverCall' = solver_invocation(option_type, spot, strike, dte, r,
                                           market_price, out)
        /\ PipelineIdle

RoundTrip ==
    /\ pc = "idle" /\ call.fn = "none"
    /\ \E kind \in {"call", "put"}, spot \in 1..2, strike \in 1..2, dte \in 1..MaxDte,
       r \in Rates, v \in DOMAIN Volatilities, p \in ModelPrices :
        LET volatility == Volatilities[v] IN
        \E out \in RoundTripOutcomes(volatility) :
                /\ call' = [fn |-> "round_trip", option_type |-> Some(kind),
                        spot |-> Some(spot), strike |-> Some(strike), dte |-> Some(dte),
                        risk_free_rate |-> r, volatility |-> volatility,
                        market_price |-> Some(p)]
            /\ ret' = compute_implied_volatility(Some(kind), Some(spot), Some(strike),
                                                 Some(dte), r, Some(p), out)
            /\ solverCall' = solver_invocation(Some(kind), Some(spot), Some(strike),
                                               Some(dte), r, Some(p), out)
            /\ PipelineIdle

InitMetrics ==
    /\ pc = "idle"
    /\ today \in Todays
    /\ raw = <<>>
    /\ df = <<>>
    /\ results = <<>>
    /\ status = ""
    /\ exitCode = None
    /\ call = [fn |-> "none"]
    /\ ret = None
    /\ solverCall = None
    /\ solverLog = <<>>
    /\ passes = <<>>
    /\ solverGraph = {}
    /\ config = ShippedConfig

NextMetrics ==
    \/ CallComputeDte
    \/ CallComputeMoneyness
    \/ CallComputeBidAskSpreadPct
    \/ CallComputeImpliedVolatility
    \/ RoundTrip

SpecMetrics == InitMetrics /\ [][NextMetrics]_vars

----------------------------------------------------------------------------
(* main.py, steps 1 and 2 *)

TICKERS == {"SPY", "QQQ", "AAPL"}

RawRow(ticker, expiration, option_type, spot, bid, ask, last_price, volume, open_interest) ==
    [ticker |-> ticker, expiration |-> expiration, option_type |-> option_type,
     strike |-> Some(2), spot_price |-> spot, bid |-> bid, ask |-> ask,
     last_price |-> last_price, volume |-> volume, open_interest |-> open_interest]

Ymd(y, m, d) == Some([kind |-> "ymd", y |-> y, m |-> m, d |-> d])

\* Rows the landing zone can hold: expirations after, on and before the
\* days of Todays, one that is no date and one missing; quotes two-sided,
\* crossed and one-sided, with and without a last trade.
RawRows ==
    {RawRow("SPY", Ymd(2025, 3, 28), Some("call"), Some(2), Some(1), Some(3), Some(4), Some(30), Some(4)),
     RawRow("SPY", Ymd(2024, 2, 28), Some("put"), Some(2), Some(3), Some(1), None, Some(50), Some(4)),
     RawRow("QQQ", Ymd(2024, 2, 30), Some("call"), Some(2), Some(1), Some(1), Some(1), Some(40), Some(4)),
     RawRow("QQQ", Ymd(2024, 12, 31), Some("put"), Some(0), Some(0), Some(2), Some(1), None, Some(0)),
     RawRow("AAPL", None, None, None, None, Some(2), Some(2), Some(50), None),
     RawRow("AAPL", Ymd(2025, 12, 1), Some("CALL"), Some(3), Some(1), None, Some(1), Some(41), Some(4))}

RawDatasets == UNION {[1..n -> RawRows] : n \in 0..MaxRawRows}

\* Step 1: unless --skip-ingest, fetch every ticker; the tickers in `failed`
\* raised.  All of them failing ends the run with status 1.  Afterwards the
\* landing zone holds `landed`.
Ingest ==
    /\ pc = "ingest"
    /\ \E skip_ingest \in BOOLEAN, failed \in SUBSET TICKERS, landed \in RawDatasets :
        IF ~skip_ingest /\ failed = TICKERS
        THEN /\ status' = "INGEST_FAILED" /\ exitCode' = Some(1) /\ pc' = "done"
             /\ UNCHANGED raw
        ELSE /\ raw' = landed /\ pc' = "transform"
             /\ UNCHANGED <<status, exitCode>>
    /\ UNCHANGED <<today, df, results, solverLog>>
    /\ MetricsIdle

\* Step 2: run_transform derives the columns of every row and writes the
\* dataset; each row that reaches the solver gets the solver's outcome.
Transform ==
    /\ pc = "transform"
    /\ \E outs \in [1..Len(raw) -> SolverOutcomes] :
        /\ df' = run_transform(raw, today, outs)
        /\ solverLog' = [i \in 1..Len(raw) |-> iv_udf_solver_call(raw[i], today, outs[i])]
    /\ pc' = "checks"
    /\ UNCHANGED <<today, raw, results, status, exitCode>>
    /\ MetricsIdle

\* Step 2, run_transform raising: [transform] FATAL, sys.exit(1)
TransformFatal ==
    /\ pc = "transform"
    /\ status' = "FATAL" /\ exitCode' = Some(1) /\ pc' = "done"
    /\ UNCHANGED <<today, raw, df, results, solverLog>>
    /\ MetricsIdle

Init ==
    /\ pc = "ingest"
    /\ today \in Todays
    /\ raw = <<>>
    /\ df = <<>>
    /\ results = <<>>
    /\ status = ""
    /\ exitCode = None
    /\ call = [fn |-> "none"]
    /\ ret = None
    /\ solverCall = None
    /\ solverLog = <<>>
    /\ passes = <<>>
    /\ solverGraph = {}
    /\ config = ShippedConfig

Next ==
    \/ Ingest
    \/ Transform
    \/ TransformFatal
    \/ RunQualityChecks
    \/ Summary

Spec == Init /\ [][Next]_vars

\* A run under any configuration
InitConfig ==
    /\ pc = "ingest"
    /\ today \in Todays
    /\ raw = <<>>
    /\ df = <<>>
    /\ results = <<>>
    /\ status = ""
    /\ exitCode = None
    /\ call = [fn |-> "none"]
    /\ ret = None
    /\ solverCall = None
    /\ solverLog = <<>>
    /\ passes = <<>>
    /\ solverGraph = {}
    /\ config \in Configurations

SpecConfig == InitConfig /\ [][Next]_vars

----------------------------------------------------------------------------
(* The quality checks over any dataset *)

BaseRow ==
    [ticker |-> "SPY",
     expiration |-> Some([kind |-> "ymd", y |-> 2024, m |-> 3, d |-> 15]),
     option_type |-> Some("call"),
     strike |-> Some(2), spot_price |-> Some(2), last_price |-> None]

Row(bid, ask, iv, volume, open_interest, dte) ==
    [ticker |-> BaseRow.ticker, expiration |-> BaseRow.expiration,
     option_type |-> BaseRow.option_type, strike |-> BaseRow.strike,
     spot_price |-> BaseRow.spot_price, last_price |-> BaseRow.last_price,
     bid |-> bid, ask |-> ask, implied_volatility |-> iv,
     volume |-> volume, open_interest |-> open_interest, dte |-> dte,
     moneyness |-> compute_moneyness(BaseRow.strike, BaseRow.spot_price),
     mid_price |-> mid_price(bid, ask),
     bid_ask_spread_pct |-> compute_bid_ask_spread_pct(bid, ask),
     volume_oi_ratio |-> volume_oi_ratio(volume, open_interest),
     is_put |-> is_put(BaseRow.option_type)]

\* Rows of a dataset: quotes in order, crossed, equal and one-sided; a solved
\* and an absent implied volatility; volume at and above 10 x open interest
\* (50 / 4 and 188 / 15 both display as 12.5), absent volume, open interest 0
\* and absent; dte positive, 0, negative and absent.
DatasetRows ==
    {Row(Some(1), Some(2), Some(200000), Some(188), Some(15), Some(30)),
     Row(Some(3), Some(2), Some(350000), Some(40), Some(4), Some(0)),
     Row(Some(2), Some(2), None, Some(50), Some(4), Some(5)),
     Row(None, Some(2), None, Some(50), None, None),
     Row(Some(0), None, None, None, Some(4), Some(-1)),
     Row(Some(2), Some(1), Some(5000000), Some(41), Some(4), Some(1)),
     Row(Some(1), Some(3), Some(1), Some(50), Some(0), Some(2))}

Datasets == UNION {[1..n -> DatasetRows] : n \in 0..MaxRows}

InitChecks ==
    /\ pc = "checks"
    /\ today = [y |-> 2024, m |-> 3, d |-> 1]
    /\ raw = <<>>
    /\ df \in Datasets
    /\ results = <<>>
    /\ status = ""
    /\ exitCode = None
    /\ call = [fn |-> "none"]
    /\ ret = None
    /\ solverCall = None
    /\ solverLog = <<>>
    /\ passes = <<>>
    /\ solverGraph = {}
    /\ config = ShippedConfig

NextChecks ==
    \/ RunQualityChecks
    \/ Summary

SpecChecks == InitChecks /\ [][NextChecks]_vars

----------------------------------------------------------------------------
(* Two transform passes: the landing zone may change between them and a    *)
(* day may pass.  The solver is a function of its arguments: a call the    *)
(* passes have made before returns what it returned then.                  *)

\* date.today() one day later
tomorrow(t) ==
    IF t.d < DaysInMonth(t.y, t.m) THEN [t EXCEPT !.d = t.d + 1]
    ELSE IF t.m < 12 THEN [y |-> t.y, m |-> t.m + 1, d |-> 1]
    ELSE [y |-> t.y + 1, m |-> 1, d |-> 1]

\* Rows of the two passes: a two-sided quote the solver is called for, a
\* row with spot 0 and a one-sided quote.
PassRows ==
    {r \in RawRows : r.ticker = "SPY" /\ r.option_type = Some("call")}
    \cup {r \in RawRows : r.ticker = "QQQ" /\ r.option_type = Some("put")}
    \cup {r \in RawRows : r.ticker = "AAPL" /\ r.option_type = Some("CALL")}

PassDatasets == UNION {[1..n -> PassRows] : n \in 0..MaxRawRows}

PassSolverOutcomes ==
    {[kind |-> "raise"], [kind |-> "value", v |-> 2000000],
     [kind |-> "value", v |-> IvCap + 1]}

\* the solver calls of a pass over raw_df
pass_solver_calls(raw_df, today_, outs) ==
    {Val(iv_udf_solver_call(raw_df[i], today_, outs[i])) :
        i \in {k \in 1..Len(raw_df) :
                  iv_udf_solver_call(raw_df[k], today_, outs[k]) # None}}

\* no two calls with the same arguments and different outcomes
IsFunctionOfArgs(calls) ==
    \A a \in calls, b \in calls : a.args = b.args => a.out = b.out

\* the landing zone is (re)written before a pass
Land ==
    /\ pc = "land"
    /\ raw' \in PassDatasets
    /\ pc' = "pass"
    /\ UNCHANGED <<today, df, results, status, exitCode, solverLog, passes, solverGraph,
                   call, ret, solverCall, config>>

\* a day passes between the first pass and the second
Midnight ==
    /\ pc = "land" /\ Len(passes) = 1 /\ today = passes[1].today
    /\ today' = tomorrow(today)
    /\ UNCHANGED <<pc, raw, df, results, status, exitCode, solverLog, passes, solverGraph,
                   call, ret, solverCall, config>>

\* run_transform over the landing zone, on the current day; outs[i] is the
\* solver's outcome for row i, unused (and fixed) for a row without a call
TransformPass ==
    /\ pc = "pass"
    /\ \E outs \in [1..Len(raw) -> PassSolverOutcomes] :
        /\ \A i \in 1..Len(raw) :
              iv_udf_solver_call(raw[i], today, outs[i]) = None => outs[i].kind = "raise"
        /\ IsFunctionOfArgs(solverGraph \cup pass_solver_calls(raw, today, outs))
        /\ df' = run_transform(raw, today, outs)
        /\ solverLog' = [i \in 1..Len(raw) |-> iv_udf_solver_call(raw[i], today, outs[i])]
        /\ solverGraph' = solverGraph \cup pass_solver_calls(raw, today, outs)
        /\ passes' = Append(passes, [today |-> today, raw |-> raw, df |-> df'])
    /\ pc' = IF Len(passes) = 0 THEN "land" ELSE "done"
    /\ UNCHANGED <<today, raw, results, status, exitCode, call, ret, solverCall, config>>

InitPasses ==
    /\ pc = "land"
    /\ today \in Todays
    /\ raw = <<>>
    /\ df = <<>>
    /\ results = <<>>
    /\ status = ""
    /\ exitCode = None
    /\ call = [fn |-> "none"]
    /\ ret = None
    /\ solverCall = None
    /\ solverLog = <<>>
    /\ passes = <<>>
    /\ solverGraph = {}
    /\ config = ShippedConfig

NextPasses ==
    \/ Land
    \/ Midnight
    \/ TransformPass

SpecPasses == InitPasses /\ [][NextPasses]_vars

----------------------------------------------------------------------------
(* Properties of the metric functions, checked under SpecMetrics *)

abs(x) == IF x < 0 THEN 0 - x ELSE x

\* C1: the value compute_implied_volatility returns, after its rounding to 6
\* decimals, is absent or strictly greater than 0 and at most 5.0.
C1_ReturnedIvInOpenZeroToCap ==
    call.fn = "compute_implied_volatility" =>
        \/ ret = None
        \/ Val(ret) > 0 /\ 10 * Val(ret) <= IvCap

\* The arguments of the call violate a precondition: one is missing, or dte,
\* market_price, spot or strike is <= 0.
IvPreconditionViolated ==
    \/ call.option_type = None \/ call.spot = None \/ call.strike = None
    \/ call.dte = None \/ call.market_price = None
    \/ \E a \in {call.dte, call.market_price, call.spot, call.strike} :
         a # None /\ Val(a) <= 0

\* C3: with a missing input, or dte <= 0, market_price <= 0, spot <= 0 or
\* strike <= 0, compute_implied_volatility returns absent and the solver is
\* not invoked, whatever the other inputs are.
C3_PreconditionsReturnAbsentWithoutSolver ==
    (call.fn = "compute_implied_volatility" /\ IvPreconditionViolated) =>
        ret = None /\ solverCall = None

C3_Witness ==
    /\ call.fn = "compute_implied_volatility"
    /\ call.dte = Some(0)
    /\ call.option_type = Some("call")
    /\ call.spot = Some(2) /\ call.strike = Some(2) /\ call.market_price = Some(1)
    /\ ret = None /\ solverCall = None

\* The calendar, one month at a time.
FirstOfNextMonth(dt) ==
    IF dt.m < 12 THEN [y |-> dt.y, m |-> dt.m + 1, d |-> 1]
    ELSE [y |-> dt.y + 1, m |-> 1, d |-> 1]

Before(a, b) ==
    \/ a.y < b.y
    \/ a.y = b.y /\ a.m < b.m
    \/ a.y = b.y /\ a.m = b.m /\ a.d < b.d

\* the number of days from a to b, a not after b
RECURSIVE DaysUntil(_, _)
DaysUntil(a, b) ==
    IF a.y = b.y /\ a.m = b.m THEN b.d - a.d
    ELSE (DaysInMonth(a.y, a.m) - a.d + 1) + DaysUntil(FirstOfNextMonth(a), b)

\* the text names a day of the calendar
IsCalendarDate(s) ==
    /\ s.kind = "ymd"
    /\ s.m \in 1..12
    /\ s.d >= 1 /\ s.d <= DaysInMonth(s.y, s.m)

\* C4: compute_dte returns absent or an integer >= 0: a parseable date d days
\* after today yields d, a parseable date today or before today yields 0, a
\* missing, empty or unparseable input yields absent.
C4_DteNeverNegative ==
    call.fn = "compute_dte" =>
        LET e == call.expiration_str IN
        /\ ret = None \/ Val(ret) >= 0
        /\ IF e # None /\ IsCalendarDate(Val(e))
           THEN LET x == [y |-> Val(e).y, m |-> Val(e).m, d |-> Val(e).d]
                IN  IF Before(x, today) THEN ret = Some(0)
                    ELSE ret = Some(DaysUntil(today, x))
           ELSE ret = None

C4_Witness ==
    /\ call.fn = "compute_dte"
    /\ call.expiration_str # None
    /\ IsCalendarDate(Val(call.expiration_str))
    /\ Before([y |-> Val(call.expiration_str).y, m |-> Val(call.expiration_str).m,
               d |-> Val(call.expiration_str).d], today)
    /\ toordinal(today) - 300 > DaysBeforeYear(Val(call.expiration_str).y)
    /\ ret = Some(0)

MoneynessAbsentCase ==
    call.strike = None \/ call.spot = None \/ Val(call.spot) <= 0

\* C8 as stated: compute_moneyness returns absent when strike or spot is
\* missing or spot <= 0, and otherwise exactly strike / spot.
C8_MoneynessIsExactQuotient ==
    call.fn = "compute_moneyness" =>
        IF MoneynessAbsentCase THEN ret = None
        ELSE ret # None /\ Val(ret) * Val(call.spot) = Val(call.strike) * Micro

\* C8 amended: absent in the same cases, otherwise strike / spot rounded to 6
\* decimals (within half of 1e-6 of the quotient); exactly 1.0 when strike =
\* spot > 0.
C8_MoneynessIsRoundedQuotient ==
    call.fn = "compute_moneyness" =>
        IF MoneynessAbsentCase THEN ret = None
        ELSE /\ ret # None
             /\ 2 * abs(Val(ret) * Val(call.spot) - Val(call.strike) * Micro)
                    <= Val(call.spot)
             /\ call.strike = call.spot => ret = Some(Micro)

C8_Witness ==
    /\ call.fn = "compute_moneyness"
    /\ call.strike = Some(2) /\ call.spot = Some(3)
    /\ ret = Some(666667)

SpreadAbsentCase ==
    call.bid = None \/ call.ask = None \/ Val(call.bid) + Val(call.ask) <= 0

\* C9 as stated: compute_bid_ask_spread_pct returns absent when bid or ask is
\* missing or mid <= 0, and otherwise exactly (ask - bid) / mid.
C9_SpreadIsExactQuotient ==
    call.fn = "compute_bid_ask_spread_pct" =>
        IF SpreadAbsentCase THEN ret = None
        ELSE /\ ret # None
             /\ Val(ret) * (Val(call.bid) + Val(call.ask))
                    = 2 * (Val(call.ask) - Val(call.bid)) * Micro

\* C9 amended: absent in the same cases, otherwise (ask - bid) / mid rounded
\* to 6 decimals (within half of 1e-6 of the quotient); 0 when bid = ask > 0.
C9_SpreadIsRoundedQuotient ==
    call.fn = "compute_bid_ask_spread_pct" =>
        IF SpreadAbsentCase THEN ret = None
        ELSE /\ ret # None
             /\ 2 * abs(Val(ret) * (Val(call.bid) + Val(call.ask))
                        - 2 * (Val(call.ask) - Val(call.bid)) * Micro)
                    <= Val(call.bid) + Val(call.ask)
             /\ call.bid = call.ask => ret = Some(0)

C9_Witness ==
    /\ call.fn = "compute_bid_ask_spread_pct"
    /\ call.bid = Some(1) /\ call.ask = Some(2)
    /\ ret = Some(666667)

----------------------------------------------------------------------------
(* Properties of the quality checks and of main's verdict, checked under   *)
(* SpecChecks                                                              *)

ChecksRan == pc \in {"summary", "done"}

Count(P(_)) == Cardinality({i \in 1..Len(df) : P(df[i])})

\* C2: the run is blocking (STATUS: DEGRADED, exit status 1) exactly when
\* some result has severity ERROR and passed = false; failed WARN results
\* alone leave it SUCCESS.
C2_BlockingIffErrorCheckFailed ==
    pc = "done" =>
        LET blocking == \E i \in 1..Len(results) :
                            results[i].severity = "ERROR" /\ ~results[i].passed
        IN  /\ blocking => status = "DEGRADED" /\ exitCode = Some(1)
            /\ ~blocking => status = "SUCCESS" /\ exitCode = Some(0)

C2_Witness ==
    /\ pc = "done"
    /\ \E i \in 1..Len(results) :
         /\ results[i].severity = "WARN"
         /\ ~results[i].passed /\ results[i].failed_count > 0
    /\ status = "SUCCESS"

\* C5: check_iv_null_rate counts the rows whose implied_volatility is
\* absent against all rows; passed holds exactly when failed / total <= 0.20
\* (5 x failed <= total, a rate equal to the tolerance and the empty dataset
\* included); severity ERROR.
C5_IvNullRate ==
    ChecksRan =>
        LET r == results[3]
            nulls == Count(LAMBDA row : row.implied_volatility = None)
        IN  /\ r.check_name = "iv_null_rate"
            /\ r.failed_count = nulls
            /\ r.total_count = Len(df)
            /\ r.passed <=> (5 * nulls <= Len(df))
            /\ r.severity = "ERROR"

C5_Witness ==
    /\ ChecksRan
    /\ results[3].total_count = 5 /\ results[3].failed_count = 1
    /\ results[3].passed

\* C6: check_bid_ask_inversion counts the rows with bid and ask present and
\* bid > ask against all rows; passed = (failed_count = 0); severity ERROR;
\* with failed_count > 0 the run ends blocking.
C6_BidAskInversion ==
    ChecksRan =>
        LET r == results[2]
            crossed == Count(LAMBDA row : /\ row.bid # None /\ row.ask # None
                                          /\ Val(row.bid) > Val(row.ask))
        IN  /\ r.check_name = "bid_ask_inversion"
            /\ r.failed_count = crossed
            /\ r.total_count = Len(df)
            /\ r.passed <=> (crossed = 0)
            /\ r.severity = "ERROR"
            /\ (pc = "done" /\ crossed > 0) =>
                   status = "DEGRADED" /\ exitCode = Some(1)

C6_Witness ==
    /\ pc = "done"
    /\ results[2].failed_count = 3 /\ results[2].total_count = 5
    /\ ~results[2].passed
    /\ \E i \in 1..Len(df) : df[i].bid = df[i].ask
    /\ status = "DEGRADED"

\* C7: check_volume_oi_outliers flags a row exactly when open_interest is
\* present and > 0, volume is present and volume > threshold x
\* open_interest (strictly); failed_count is the number flagged; severity
\* WARN; passed is true whatever is flagged.
C7_VolumeOiOutliers ==
    ChecksRan =>
        LET r == results[4]
            flagged == Count(LAMBDA row :
                         /\ row.open_interest # None /\ row.volume # None
                         /\ Val(row.open_interest) > 0
                         /\ Val(row.volume) >
                              VOLUME_OI_OUTLIER_THRESHOLD * Val(row.open_interest))
        IN  /\ r.check_name = "volume_oi_outlier"
            /\ r.failed_count = flagged
            /\ r.total_count = Len(df)
            /\ r.severity = "WARN"
            /\ r.passed

C7_Witness ==
    /\ ChecksRan
    /\ Len(df) = 3
    /\ results[4].failed_count = 3
    /\ results[4].passed
    /\ \E i \in 1..Len(df) : df[i].volume = Some(50) /\ df[i].open_interest = Some(4)


----------------------------------------------------------------------------
(* Claims about the transform of a whole run *)

\* run_transform returned: its output is the dataset the checks read
TransformRan ==
    pc \in {"checks", "summary", "done"} /\ status \notin {"INGEST_FAILED", "FATAL"}

\* C11: in the transform every row's implied volatility comes from that
\* row's own mid_price = (bid + ask) / 2 and its own computed dte: the solver,
\* when called for the row, is given exactly these two, and a row whose bid
\* or ask is absent has an absent mid_price, no solver call and an absent
\* implied volatility, whatever its last_price.
C11_IvFromOwnMidPriceAndDte ==
    TransformRan =>
        \A i \in 1..Len(df) :
            LET r == raw[i]
                row == df[i]
                two_sided == r.bid # None /\ r.ask # None
            IN  /\ row.mid_price = (IF two_sided THEN Some(Val(r.bid) + Val(r.ask)) ELSE None)
                /\ row.dte = compute_dte(r.expiration, today)
                /\ solverLog[i] # None =>
                      /\ two_sided /\ row.dte # None
                      /\ Val(solverLog[i]).args.price = Val(r.bid) + Val(r.ask)
                      /\ Val(solverLog[i]).args.t_days = Val(row.dte)
                /\ row.implied_volatility # None =>
                      /\ solverLog[i] # None
                      /\ row.implied_volatility = iv_after_solver(Val(solverLog[i]).out)
                /\ ~two_sided =>
                      /\ row.mid_price = None
                      /\ solverLog[i] = None
                      /\ row.implied_volatility = None

\* a run whose transform solved one row from its mid price and left a
\* one-sided row that has a last trade without implied volatility
C11_Witness ==
    /\ TransformRan
    /\ \E i \in 1..Len(df) :
          /\ raw[i].ask = None /\ raw[i].bid # None /\ raw[i].last_price # None
          /\ df[i].implied_volatility = None
    /\ \E j \in 1..Len(df) :
          /\ solverLog[j] # None
          /\ df[j].implied_volatility # None
          /\ raw[j].last_price # None
          /\ 2 * Val(raw[j].last_price) # Val(df[j].mid_price)

\* the input columns of a row of the output
input_fields(row) ==
    [ticker |-> row.ticker, expiration |-> row.expiration,
     option_type |-> row.option_type, strike |-> row.strike,
     spot_price |-> row.spot_price, bid |-> row.bid, ask |-> row.ask,
     last_price |-> row.last_price, volume |-> row.volume,
     open_interest |-> row.open_interest]

\* every row of every pass keeps its own input columns
PassesKeepInputs ==
    \A p \in 1..Len(passes) :
        /\ Len(passes[p].df) = Len(passes[p].raw)
        /\ \A i \in 1..Len(passes[p].raw) :
              input_fields(passes[p].df[i]) = passes[p].raw[i]

\* C12 as stated: a record with the same input fields gets the same derived
\* fields in any two passes (or twice in one pass), whatever the other
\* records are and whenever the pass runs, and keeps its input fields.
C12_SameInputsSameDerivedFieldsWhenever ==
    /\ PassesKeepInputs
    /\ \A p \in 1..Len(passes), q \in 1..Len(passes) :
          \A i \in 1..Len(passes[p].raw), j \in 1..Len(passes[q].raw) :
              passes[p].raw[i] = passes[q].raw[j] => passes[p].df[i] = passes[q].df[j]

\* C12, amended: a record with the same input fields gets the same derived
\* fields in any two passes run on the same current date (or twice in one
\* pass), whatever the other records are, and keeps its input fields.
C12_SameInputsSameDateSameDerivedFields ==
    /\ PassesKeepInputs
    /\ \A p \in 1..Len(passes), q \in 1..Len(passes) :
          \A i \in 1..Len(passes[p].raw), j \in 1..Len(passes[q].raw) :
              (passes[p].raw[i] = passes[q].raw[j] /\ passes[p].today = passes[q].today)
                  => passes[p].df[i] = passes[q].df[j]

\* two passes on the same day over different landing zones that share a
\* record, at different positions, for which the solver was called
C12_Witness ==
    /\ Len(passes) = 2
    /\ passes[1].today = passes[2].today
    /\ Len(passes[1].raw) = 1 /\ Len(passes[2].raw) = 2
    /\ \E j \in 1..Len(passes[2].raw) :
          /\ j > 1
          /\ passes[2].raw[j] = passes[1].raw[1]
          /\ passes[2].raw[1] # passes[1].raw[1]
          /\ passes[2].raw[1].spot_price # passes[2].raw[j].spot_price
          /\ passes[2].df[j].implied_volatility # None
          /\ passes[2].df[j] = passes[1].df[1]

----------------------------------------------------------------------------
(* Claims about the configuration *)

\* The rate given to the solver, the tolerance of the IV null-rate check and
\* the multiplier of the volume/OI check are the configured values.
RateToleranceAndMultiplierConfigured ==
    /\ TransformRan =>
          \A i \in 1..Len(df) :
              solverLog[i] # None => Val(solverLog[i]).args.r = config.RISK_FREE_RATE
    /\ (ChecksRan /\ TransformRan) =>
          /\ results[3].passed <=>
                (IF Len(df) > 0
                 THEN results[3].failed_count * 100 <= config.IV_NULL_TOLERANCE * Len(df)
                 ELSE 0 <= config.IV_NULL_TOLERANCE)
          /\ results[4].failed_count =
                Cardinality({i \in 1..Len(df) :
                    /\ df[i].open_interest # None /\ Val(df[i].open_interest) > 0
                    /\ df[i].volume # None
                    /\ Val(df[i].volume) >
                          config.VOLUME_OI_OUTLIER_THRESHOLD * Val(df[i].open_interest)})

\* C13: under every configuration the four thresholds applied are the
\* configured ones: the solver gets RISK_FREE_RATE, the IV null-rate check
\* compares with IV_NULL_TOLERANCE, the volume/OI check multiplies by
\* VOLUME_OI_OUTLIER_THRESHOLD, and a solved volatility is rejected as too
\* large exactly when it is above MAX_VALID_IV.
C13_ThresholdsAreTheConfiguredValues ==
    /\ RateToleranceAndMultiplierConfigured
    /\ TransformRan =>
          \A i \in 1..Len(df) :
              (solverLog[i] # None /\ Val(solverLog[i]).out.kind = "value") =>
                  LET v == Val(solverLog[i]).out.v
                  IN  /\ v > config.MAX_VALID_IV => df[i].implied_volatility = None
                      /\ (v > 0 /\ v <= config.MAX_VALID_IV) =>
                            df[i].implied_volatility # None

----------------------------------------------------------------------------
(* Claims about the samples of the checks *)

\* The true quotient of row a is at least that of row b (open interests > 0)
ratio_geq(a, b) ==
    Val(a.volume) * Val(b.open_interest) >= Val(b.volume) * Val(a.open_interest)

\* The first three of the flagged rows ordered by descending quotient.
order_by_ratio_limit(d) ==
    LET failed == {i \in 1..Len(d) : volume_oi_outlier_failed(d[i])}
        n == IF Cardinality(failed) < 3 THEN Cardinality(failed) ELSE 3
    IN  {s \in [1..n -> failed] :
            /\ \A k \in 1..n, l \in 1..n : k # l => s[k] # s[l]
            /\ \A k \in 1..n, l \in 1..n : k < l => ratio_geq(d[s[k]], d[s[l]])
            /\ \A i \in failed :
                  (\A k \in 1..n : s[k] # i) =>
                      \A k \in 1..n : ratio_geq(d[s[k]], d[i])}

\* the failure predicate of the c-th check of run_all_checks
check_failed(c, r) ==
    CASE c = 1 -> null_zero_bid_failed(r)
      [] c = 2 -> bid_ask_inversion_failed(r)
      [] c = 3 -> iv_null_failed(r)
      [] c = 4 -> volume_oi_outlier_failed(r)
      [] c = 5 -> negative_dte_failed(r)

\* every sample holds min(3, failed_count) distinct rows that fail the check
SamplesAreCappedFailures ==
    ChecksRan =>
        \A c \in 1..5 :
            LET r == results[c]
                n == IF r.failed_count < 3 THEN r.failed_count ELSE 3
            IN  /\ Len(r.sample_failures) = n
                /\ Len(r.sample_rows) = n
                /\ \A k \in 1..n, l \in 1..n : k # l => r.sample_rows[k] # r.sample_rows[l]
                /\ \A k \in 1..n :
                      /\ r.sample_rows[k] \in 1..Len(df)
                      /\ check_failed(c, df[r.sample_rows[k]])

\* C14: every check's sample_failures holds exactly min(3, failed_count)
\* records that fail the check, and the sample of the volume/OI check holds
\* the flagged records with the largest volume / open_interest ratios in
\* non-increasing order of that ratio.
C14_SampleHoldsLargestRatiosInOrder ==
    /\ SamplesAreCappedFailures
    /\ ChecksRan => results[4].sample_rows \in order_by_ratio_limit(df)

----------------------------------------------------------------------------
(* Claims about the counts of the checks *)

\* C15: for each of the five checks and every dataset, the empty one
\* included, 0 <= failed_count <= total_count, total_count is the number of
\* rows, failed_count is the number of rows failing the check, and passed
\* is determined by the counts and the check's threshold: failed_count = 0
\* for null_zero_bid, bid_ask_inversion and negative_dte, a failure rate of
\* at most IV_NULL_TOLERANCE (rate 0 on no rows) for iv_null_rate, and
\* always for volume_oi_outlier.
C15_CountsBoundedAndPassedFromCounts ==
    ChecksRan =>
        /\ \A c \in 1..5 :
              /\ 0 <= results[c].failed_count
              /\ results[c].failed_count <= results[c].total_count
              /\ results[c].total_count = Len(df)
              /\ results[c].failed_count =
                    Cardinality({i \in 1..Len(df) : check_failed(c, df[i])})
        /\ \A c \in {1, 2, 5} : results[c].passed <=> (results[c].failed_count = 0)
        /\ results[3].passed <=>
              (IF results[3].total_count > 0
               THEN results[3].failed_count * 100 <= IV_NULL_TOLERANCE * results[3].total_count
               ELSE TRUE)
        /\ results[4].passed

\* the checks ran over a dataset all of whose rows have a negative dte and
\* no positive bid: both counts equal the total and both checks failed,
\* while bid_ask_inversion counted nothing and passed
C15_Witness ==
    /\ ChecksRan
    /\ Len(df) > 0
    /\ results[5].failed_count = results[5].total_count
    /\ ~results[5].passed
    /\ results[1].failed_count = Len(df)
    /\ ~results[1].passed
    /\ results[2].failed_count = 0
    /\ results[2].passed

----------------------------------------------------------------------------
(* Claims about the checks over the transform's own output *)

\* the expiration text of the row is a date before today_
expired_before(r, today_) ==
    /\ r.expiration # None
    /\ Val(r.expiration).kind = "ymd"
    /\ strptime(Val(r.expiration)) # None
    /\ toordinal(Val(strptime(Val(r.expiration)))) < toordinal(today_)

\* C16: over a dataset produced by run_transform, whatever the expiration
\* texts and the current date, every dte is absent or >= 0, so
\* check_negative_dte reports failed_count = 0 and passed, and a blocking
\* (DEGRADED) run has a failed bid_ask_inversion or iv_null_rate.
C16_TransformOutputPassesNegativeDte ==
    /\ TransformRan =>
          \A i \in 1..Len(df) : df[i].dte = None \/ Val(df[i].dte) >= 0
    /\ (TransformRan /\ ChecksRan) =>
          /\ results[5].check_name = "negative_dte"
          /\ results[5].failed_count = 0
          /\ results[5].passed
          /\ results[5].sample_failures = <<>>
    /\ status = "DEGRADED" =>
          /\ ~results[2].passed \/ ~results[3].passed
          /\ \A k \in 1..Len(error_checks(results)) :
                error_checks(results)[k].check_name \in {"bid_ask_inversion", "iv_null_rate"}

\* a finished run over a landing zone holding a contract that expired
\* before today: its dte is 0, negative_dte passed, and the run is blocked
\* by another check
C16_Witness ==
    /\ pc = "done"
    /\ status = "DEGRADED"
    /\ \E i \in 1..Len(df) : expired_before(raw[i], today) /\ df[i].dte = Some(0)
    /\ results[5].passed

====
